---- MODULE Spec2Model ----
(***************************************************************************)
(* A model of sagecoffee's credential manager (client.py, TokenManager)    *)
(* and of its streaming connection supervisor (ws_client.py,               *)
(* BrevilleWsClient).                                                      *)
(*                                                                         *)
(* SpecTM: concurrent asyncio tasks calling TokenManager.get_id_token(),   *)
(*         get_access_token() and refresh() against one manager.           *)
(* SpecWS: one BrevilleWsClient with a consumer of listen(), concurrent    *)
(*         add_appliance() callers and a caller of disconnect().           *)
(*                                                                         *)
(* Every step is the code between two suspension points (await / yield) of *)
(* one coroutine: asyncio runs that code atomically.                       *)
(***************************************************************************)
EXTENDS Integers, Sequences, FiniteSets, TLC

VARIABLES
    \* ---- TokenManager (client.py) ----
    tokens,         \* self._tokens: a TokenSet, or NoTokens for None
    lock,           \* self._lock: the task holding it, 0 when unlocked
    waiters,        \* asyncio.Lock's FIFO queue of tasks blocked in acquire()
    stored,         \* the ConfigStore's saved refresh_token (-1: no store attached, 0: nothing saved)
    storeKeys,      \* the config keys the ConfigStore has been asked to set
    tpc,            \* per task: "idle", "waiting", "exchange", "done"
    top,            \* per task: the method it called
    presented,      \* per task: the refresh_token handed to AuthClient.refresh
    tres,           \* per task: what the call returned or raised, and when
    expiredAtCall,  \* per task: was the cached set expired when the call was made
    nExch,          \* number of AuthClient.refresh calls made so far
    firstSet,       \* the TokenSet the first successful exchange produced
    now,            \* the wall clock (_utcnow), in seconds
    \* ---- BrevilleWsClient (ws_client.py) ----
    ws,             \* self._ws: the connection held (its number), 0 for None
    tstate,         \* that connection's transport: "none", "open", "closed_ok", "closed_err"
    running,        \* self._running
    reconnect_delay,\* self._reconnect_delay
    appliances,     \* self._appliances, in registration order
    pings,          \* every _ping_loop task created so far: "alive", "cancelling", "done"
    ping_task,      \* self._ping_task: an index into pings, 0 for None
    hasRefresh,     \* whether a refresh_token_callback was given
    \* listen(): the async generator and its consumer
    lpc,            \* where listen() is suspended, or how it finished
    lctx,           \* "try": in the try block; "reconnect": in _reconnect_with_backoff
    li,             \* the replay loop's position in self._appliances
    auto,           \* listen()'s auto_reconnect argument
    lastWait,       \* the delay being slept in _reconnect_with_backoff (0 outside it)
    lerr,           \* the exception listen() raised to its consumer ("none": none)
    lrenew,         \* how the refresh callback awaited before the pending _connect() ended: "none", "ok", "failed"
    \* disconnect() and connect() callers
    dpc,            \* "idle", "await_ping", "closing", "done"
    dAwait,         \* the ping task disconnect() is awaiting
    cpc,            \* "idle", "token", "handshake", "done", "raised"
    \* history
    nConn,          \* connections opened so far
    openedBy,       \* who opened the held connection: "connect", "listen", "reconnect"
    regAtOpen,      \* Len(appliances) when the held connection was opened
    sent,           \* addAppliance messages written to the held connection, with their origin
    pinged,         \* whether a ping was written to the held connection
    pingFailed,     \* whether a ping written to the held connection raised (logged by _ping_loop)
    fails,          \* backoff waits completed since a connection was last opened
    calls,          \* add_appliance() calls made by callers
    \* the dispatcher (_receive_loop / _handle_message)
    state_cache,    \* self._state_cache: per serial number, a DeviceState or NoState
    hasOnState,     \* whether an on_state callback was given
    hasOnRaw,       \* whether an on_raw_message callback was given
    inbox,          \* the frames received so far, in order of arrival
    stateCalls,     \* the DeviceStates on_state was called with, in order
    rawCalls,       \* the messages on_raw_message was called with, in order
    emitted,        \* the messages listen() yielded to its consumer, in order
    \* http_api.py: BrevilleApiClient, one request() call at a time
    apc,            \* where the current request() call stands
    retry_on_401,   \* the call's retry_on_401 argument
    hasApiRefresh,  \* whether a refresh_token_callback was given
    responses,      \* the status codes the call has received, in order
    nRefresh,       \* how often the call has invoked the refresh callback
    nRequests,      \* how many HTTP requests the call has sent
    apiCalls        \* request() calls made so far

tmVars == <<tokens, lock, waiters, stored, storeKeys, tpc, top, presented, tres,
            expiredAtCall, nExch, firstSet, now>>

wsVars == <<ws, tstate, running, reconnect_delay, appliances, pings, ping_task,
            hasRefresh, lpc, lctx, li, auto, lastWait, lerr, lrenew, dpc, dAwait, cpc,
            nConn, openedBy, regAtOpen, sent, pinged, pingFailed, fails, calls>>

dispVars == <<state_cache, hasOnState, hasOnRaw, inbox, stateCalls, rawCalls, emitted>>

apiVars == <<apc, retry_on_401, hasApiRefresh, responses, nRefresh, nRequests, apiCalls>>

vars == <<tmVars, wsVars, dispVars, apiVars>>

-----------------------------------------------------------------------------
(* Bounds of the model *)

MaxTasks == 2
MaxTicks == 2

(* Program constants *)

SkewSeconds == 60
DefaultExpiresIn == 86400

Tasks == 1..MaxTasks
Ops == {"get_id_token", "get_access_token", "refresh"}

\* The clock advances in steps of one skew; a credential lives one skew
\* (already inside the skew window when issued) or three.
TickSeconds == SkewSeconds
ShortLife == SkewSeconds
LongLife == 3 * SkewSeconds
MaxTime == MaxTicks * TickSeconds

-----------------------------------------------------------------------------
(* models.py: TokenSet *)

\* A credential string: n identifies the string (0: None), exp is the "exp"
\* claim its JWT payload decodes to (0: not a JWT, or no exp claim).
NoTok == [n |-> 0, exp |-> 0]
Cred(n, exp) == [n |-> n, exp |-> exp]

TokenSet(acc, id, rt, expin, obt) ==
    [some |-> TRUE, access_token |-> acc, id_token |-> id, refresh_token |-> rt,
     expires_in |-> expin, obtained_at |-> obt]

NoTokens ==
    [some |-> FALSE, access_token |-> NoTok, id_token |-> NoTok, refresh_token |-> 0,
     expires_in |-> 0, obtained_at |-> 0]

\* TokenSet.is_expired(skew_seconds) evaluated at time t.  IsExpiredNoSkew is
\* the variant that compares against the expiry itself.
IsExpiredNoSkew(ts, skew, t) ==
    IF ts.id_token.n = 0 /\ ts.access_token.n = 0
    THEN TRUE
    ELSE LET token == IF ts.id_token.n # 0 THEN ts.id_token ELSE ts.access_token
         IN  IF token.exp # 0
             THEN t >= token.exp
             ELSE t >= ts.obtained_at + ts.expires_in
\* IsExpiredByAgeOnly is the variant without the test for a set that holds no
\* credential.
IsExpiredByAgeOnly(ts, skew, t) ==
    LET token == IF ts.id_token.n # 0 THEN ts.id_token ELSE ts.access_token
    IN  IF token.exp # 0
        THEN t >= token.exp - skew
        ELSE t >= ts.obtained_at + ts.expires_in - skew
IsExpired(ts, skew, t) ==
    IF ts.id_token.n = 0 /\ ts.access_token.n = 0
    THEN TRUE
    ELSE LET token == IF ts.id_token.n # 0 THEN ts.id_token ELSE ts.access_token
         IN  IF token.exp # 0
             THEN t >= token.exp - skew
             ELSE t >= ts.obtained_at + ts.expires_in - skew

-----------------------------------------------------------------------------
(* auth.py: AuthClient.refresh *)

\* What the token endpoint answers: rejected (raise_for_status raises), or a
\* JSON body.  acc / id: "none" (key absent), "opaque" (no decodable exp),
\* "short" or "long" (a JWT expiring that long after now).  rotate: whether
\* the body carries a new refresh_token.
Responses ==
    { [ok |-> FALSE, acc |-> "none", id |-> "none", rotate |-> FALSE, expin |-> 0],
      [ok |-> TRUE, acc |-> "long", id |-> "long", rotate |-> FALSE, expin |-> LongLife],
      [ok |-> TRUE, acc |-> "long", id |-> "long", rotate |-> TRUE, expin |-> LongLife],
      [ok |-> TRUE, acc |-> "short", id |-> "long", rotate |-> FALSE, expin |-> LongLife],
      [ok |-> TRUE, acc |-> "short", id |-> "short", rotate |-> FALSE, expin |-> LongLife],
      [ok |-> TRUE, acc |-> "none", id |-> "long", rotate |-> FALSE, expin |-> LongLife],
      [ok |-> TRUE, acc |-> "long", id |-> "none", rotate |-> FALSE, expin |-> LongLife],
      [ok |-> TRUE, acc |-> "opaque", id |-> "opaque", rotate |-> FALSE, expin |-> LongLife],
      [ok |-> TRUE, acc |-> "opaque", id |-> "opaque", rotate |-> FALSE, expin |-> ShortLife] }

IssuedCred(kind, serial, t) ==
    CASE kind = "none"   -> NoTok
      [] kind = "opaque" -> Cred(serial, 0)
      [] kind = "short"  -> Cred(serial, t + ShortLife)
      [] kind = "long"   -> Cred(serial, t + LongLife)

\* The TokenSet AuthClient.refresh builds from a successful response;
\* refresh_token=data.get("refresh_token", refresh_token) keeps the secret
\* presented when the body has no such key.  RefreshedSetNoCarry is the variant
\* that takes the secret from the body only.
RefreshedSetNoCarry(resp, refresh_token, serial, t) ==
    TokenSet(IssuedCred(resp.acc, serial, t),
             IssuedCred(resp.id, serial, t),
             IF resp.rotate THEN serial ELSE 0,
             resp.expin,
             t)
\* RefreshedSetMerged is the variant that fills a credential the body lacks
\* from the cached set.
RefreshedSetMerged(resp, refresh_token, serial, t) ==
    TokenSet(IF resp.acc = "none" THEN tokens.access_token
                                  ELSE IssuedCred(resp.acc, serial, t),
             IF resp.id = "none" THEN tokens.id_token
                                 ELSE IssuedCred(resp.id, serial, t),
             IF resp.rotate THEN serial ELSE refresh_token,
             resp.expin,
             t)
RefreshedSet(resp, refresh_token, serial, t) ==
    TokenSet(IssuedCred(resp.acc, serial, t),
             IssuedCred(resp.id, serial, t),
             IF resp.rotate THEN serial ELSE refresh_token,
             resp.expin,
             t)

-----------------------------------------------------------------------------
(* client.py: TokenManager *)

\* The sets a manager can be constructed with (initial_tokens).
InitTokenSets ==
    { NoTokens,
      \* SageCoffeeClient(refresh_token=...): TokenSet(refresh_token=rt)
      TokenSet(NoTok, NoTok, 1, DefaultExpiresIn, 0),
      \* a fresh set
      TokenSet(Cred(1, LongLife), Cred(1, LongLife), 1, DefaultExpiresIn, 0),
      \* an expired set
      TokenSet(Cred(1, ShortLife), Cred(1, ShortLife), 1, DefaultExpiresIn, 0),
      \* a set whose access credential expires before its identity credential
      TokenSet(Cred(1, ShortLife), Cred(1, LongLife), 1, DefaultExpiresIn, 0),
      \* sets without a renewal secret, fresh and expired
      TokenSet(Cred(1, LongLife), Cred(1, LongLife), 0, DefaultExpiresIn, 0),
      TokenSet(Cred(1, ShortLife), Cred(1, ShortLife), 0, DefaultExpiresIn, 0) }

NoResult == [kind |-> "none", cred |-> NoTok, err |-> "", at |-> 0]
Returned(c, t) == [kind |-> "ret", cred |-> c, err |-> "", at |-> t]
Raised(e, t) == [kind |-> "raise", cred |-> NoTok, err |-> e, at |-> t]

\* asyncio.Lock.acquire() takes the lock without suspending only when it is
\* unlocked and nobody is queued.
LockFreeAlways == TRUE
LockFree == lock = 0 /\ waiters = <<>>

\* get_id_token / get_access_token: "if self._tokens.is_expired(self._skew_seconds)",
\* evaluated inside the critical section.  ShouldRenewStale is the variant
\* that evaluates it when the method is called, before the lock is awaited.
ShouldRenewStale(t) ==
    IF tpc[t] = "idle" THEN IsExpired(tokens, SkewSeconds, now) ELSE expiredAtCall[t]
\* ShouldRenewUntilRejected stops renewing once an exchange has been rejected.
ShouldRenewUntilRejected(t) ==
    /\ IsExpired(tokens, SkewSeconds, now)
    /\ \A u \in Tasks : tres[u].err # "HTTPStatusError"
ShouldRenew(t) == IsExpired(tokens, SkewSeconds, now)

\* _refresh: "if not self._tokens or not self._tokens.refresh_token".
NoSecretAbsentOnly == ~tokens.some
NoSecret == ~tokens.some \/ tokens.refresh_token = 0

\* The tokens setter: "if self._store and value.refresh_token:
\* self._store.save_token_set(value)".
SetterSavesNever(ts) == FALSE
SetterSaves(ts) == stored # -1 /\ ts.refresh_token # 0

\* store.py, ConfigStore.save_token_set: the keys it sets ("if
\* tokens.refresh_token: self.set("refresh_token", tokens.refresh_token)").
SaveTokenSetKeys(ts) == IF ts.refresh_token # 0 THEN {"refresh_token"} ELSE {}

\* The tail of each method, run on the cached set ts.
Finish(op, ts) ==
    CASE op = "get_id_token" ->
            IF ts.id_token.n = 0
            THEN Raised("ValueError: No id_token available after refresh", now)
            ELSE Returned(ts.id_token, now)
      [] op = "get_access_token" ->
            IF ts.access_token.n = 0
            THEN Raised("ValueError: No access_token available after refresh", now)
            ELSE Returned(ts.access_token, now)
      [] op = "refresh" ->
            IF ~ts.some
            THEN Raised("ValueError: Refresh failed", now)
            ELSE Returned(NoTok, now)

\* "async with self._lock": leaving the block releases the lock whether the
\* body returned or raised.  LockAfterReturnOnly is the variant that releases
\* it only when the body returned.
LockAfterReturnOnly(t, raised) == IF raised THEN t ELSE 0
LockAfter(t, raised) == 0

\* The critical section from "async with self._lock" up to its first
\* suspension point: either the call completes (and releases the lock), or it
\* is suspended in "await self._auth_client.refresh(...)" holding the lock.
RunSection(t, op) ==
    LET needTokens == op # "refresh" /\ ~tokens.some
        renew == op = "refresh" \/ (tokens.some /\ ShouldRenew(t))
        noSecret == NoSecret
    IN  IF needTokens
        THEN /\ tres' = [tres EXCEPT ![t] = Raised("ValueError: No tokens available", now)]
             /\ tpc' = [tpc EXCEPT ![t] = "done"]
             /\ lock' = LockAfter(t, TRUE)
             /\ UNCHANGED <<presented, nExch>>
        ELSE IF renew /\ noSecret
        THEN /\ tres' = [tres EXCEPT ![t] = Raised("ValueError: No refresh_token available", now)]
             /\ tpc' = [tpc EXCEPT ![t] = "done"]
             /\ lock' = LockAfter(t, TRUE)
             /\ UNCHANGED <<presented, nExch>>
        ELSE IF renew
        THEN /\ tpc' = [tpc EXCEPT ![t] = "exchange"]
             /\ presented' = [presented EXCEPT ![t] = tokens.refresh_token]
             /\ nExch' = nExch + 1
             /\ lock' = t
             /\ UNCHANGED tres
        ELSE /\ tres' = [tres EXCEPT ![t] = Finish(op, tokens)]
             /\ tpc' = [tpc EXCEPT ![t] = "done"]
             /\ lock' = LockAfter(t, Finish(op, tokens).kind = "raise")
             /\ UNCHANGED <<presented, nExch>>

\* A task calls get_id_token(), get_access_token() or refresh().
Call(t, op) ==
    /\ tpc[t] = "idle"
    /\ \A u \in Tasks : u < t => tpc[u] # "idle"
    /\ top' = [top EXCEPT ![t] = op]
    /\ expiredAtCall' = [expiredAtCall EXCEPT
                            ![t] = tokens.some /\ IsExpired(tokens, SkewSeconds, now)]
    /\ IF LockFree
       THEN /\ RunSection(t, op)
            /\ UNCHANGED waiters
       ELSE /\ waiters' = Append(waiters, t)
            /\ tpc' = [tpc EXCEPT ![t] = "waiting"]
            /\ UNCHANGED <<lock, presented, nExch, tres>>
    /\ UNCHANGED <<tokens, stored, storeKeys, firstSet, now>>
    /\ UNCHANGED <<wsVars, dispVars, apiVars>>

\* The first queued task is woken by release() and enters the section.
Resume(t) ==
    /\ tpc[t] = "waiting"
    /\ lock = 0
    /\ waiters # <<>>
    /\ Head(waiters) = t
    /\ waiters' = Tail(waiters)
    /\ RunSection(t, top[t])
    /\ UNCHANGED <<tokens, stored, storeKeys, top, expiredAtCall, firstSet, now>>
    /\ UNCHANGED <<wsVars, dispVars, apiVars>>

\* The exchange's round trip ends: _refresh either propagates the error, or
\* replaces the cached set (the tokens setter saves the refresh_token when a
\* store is attached) and the method finishes on the new set.
ExchangeReturn(t, resp) ==
    /\ tpc[t] = "exchange"
    /\ tpc' = [tpc EXCEPT ![t] = "done"]
    /\ IF resp.ok
       THEN LET new == RefreshedSet(resp, presented[t], nExch + 1, now)
            IN  /\ lock' = LockAfter(t, Finish(top[t], new).kind = "raise")
                /\ tokens' = new
                /\ stored' = IF SetterSaves(new) THEN new.refresh_token ELSE stored
                /\ storeKeys' = IF SetterSaves(new)
                                THEN storeKeys \cup SaveTokenSetKeys(new)
                                ELSE storeKeys
                /\ firstSet' = IF firstSet.some THEN firstSet ELSE new
                /\ tres' = [tres EXCEPT ![t] = Finish(top[t], new)]
       ELSE /\ lock' = LockAfter(t, TRUE)
            /\ tres' = [tres EXCEPT ![t] = Raised("HTTPStatusError", now)]
            /\ UNCHANGED <<tokens, stored, storeKeys, firstSet>>
    /\ UNCHANGED <<waiters, top, presented, expiredAtCall, nExch, now>>
    /\ UNCHANGED <<wsVars, dispVars, apiVars>>

\* Time passes.
Tick ==
    /\ now + TickSeconds <= MaxTime
    /\ now' = now + TickSeconds
    /\ UNCHANGED <<tokens, lock, waiters, stored, storeKeys, tpc, top, presented,
                   tres, expiredAtCall, nExch, firstSet>>
    /\ UNCHANGED <<wsVars, dispVars, apiVars>>

\* A manager freshly constructed, before any call.
TMIdle(ts, st) ==
    /\ tokens = ts
    /\ lock = 0
    /\ waiters = <<>>
    /\ stored = st
    /\ storeKeys = {}
    /\ tpc = [t \in Tasks |-> "idle"]
    /\ top = [t \in Tasks |-> "refresh"]
    /\ presented = [t \in Tasks |-> 0]
    /\ tres = [t \in Tasks |-> NoResult]
    /\ expiredAtCall = [t \in Tasks |-> FALSE]
    /\ nExch = 0
    /\ firstSet = NoTokens
    /\ now = 0

-----------------------------------------------------------------------------
(* ws_client.py: BrevilleWsClient *)

(* Bounds of the model *)

MaxAppl == 2
MaxCalls == 2
MaxConns == 2
MaxPings == 2
MaxFails == 7

(* Program constants *)

RECONNECT_BASE_DELAY == 1
RECONNECT_MAX_DELAY == 30

Appliances == 1..MaxAppl

Range(s) == {s[i] : i \in 1..Len(s)}

\* random.uniform(0, RECONNECT_JITTER * delay) with RECONNECT_JITTER = 0.5:
\* the two ends of the interval.
Jitters(d) == {0, d \div 2}

\* min(self._reconnect_delay * 2, RECONNECT_MAX_DELAY).  NextDelayFromWait is
\* the variant that doubles the delay slept, jitter included.
NextDelayUncapped(d) == d * 2
NextDelayFromWait(d) ==
    IF lastWait * 2 < RECONNECT_MAX_DELAY THEN lastWait * 2 ELSE RECONNECT_MAX_DELAY
NextDelay(d) == IF d * 2 < RECONNECT_MAX_DELAY THEN d * 2 ELSE RECONNECT_MAX_DELAY

\* is_connected
IsConnected == ws # 0 /\ tstate = "open"

\* Task.cancel(): a task that has not finished is asked to stop.
CancelPingNever(ps, i) == ps
CancelPing(ps, i) ==
    IF i # 0 /\ ps[i] = "alive" THEN [ps EXCEPT ![i] = "cancelling"] ELSE ps

\* "if not auto_reconnect or not self._running: break / raise", negated.
KeepGoingNever == FALSE
KeepGoingWhileRunning == running
KeepGoing == auto /\ running

\* The subscription the replay loop sends at position i.
ReplayItemReversed(i) == appliances[Len(appliances) + 1 - i]
ReplayItem(i) == appliances[i]

ConnUnchanged == UNCHANGED <<ws, tstate, nConn, openedBy, regAtOpen, sent, pinged, pingFailed>>

\* _connect(), once websockets.connect() has returned: the handle is stored
\* and the reconnect delay reset.
OpenConn(by) ==
    /\ ws' = nConn + 1
    /\ nConn' = nConn + 1
    /\ tstate' = "open"
    /\ openedBy' = by
    /\ regAtOpen' = Len(appliances)
    /\ sent' = <<>>
    /\ pinged' = FALSE
    /\ pingFailed' = FALSE
    /\ reconnect_delay' = RECONNECT_BASE_DELAY
    /\ fails' = 0

\* self._ws = None
DropConn ==
    /\ ws' = 0
    /\ tstate' = "none"
    /\ openedBy' = "none"
    /\ regAtOpen' = 0
    /\ sent' = <<>>
    /\ pinged' = FALSE
    /\ pingFailed' = FALSE
    /\ UNCHANGED nConn

\* listen(): "self._ping_task = asyncio.create_task(self._ping_loop())", then
\* "async for message in self._receive_loop()".  The new task leaves its
\* while loop at once unless running and connected; _receive_loop returns at
\* once when there is no handle, which brings listen() back to its while test.
EnterReceive(r) ==
    /\ Len(pings) < MaxPings
    /\ pings' = Append(pings, IF r /\ ws # 0 THEN "alive" ELSE "done")
    /\ ping_task' = Len(pings) + 1
    /\ lctx' = "try"
    /\ lpc' = IF ws # 0 THEN "recv" ELSE IF r THEN "token" ELSE "ended"
    /\ UNCHANGED <<li, lastWait, reconnect_delay, fails>>
    /\ ConnUnchanged

\* listen(): "while self._running:" and the code up to the next suspension.
LoopTop(r) ==
    IF ~r
    THEN /\ lpc' = "ended"
         /\ lctx' = "try"
         /\ UNCHANGED <<pings, ping_task, li, lastWait, reconnect_delay, fails>>
         /\ ConnUnchanged
    ELSE IF ws = 0
    THEN /\ lpc' = "token"
         /\ lctx' = "try"
         /\ UNCHANGED <<pings, ping_task, li, lastWait, reconnect_delay, fails>>
         /\ ConnUnchanged
    ELSE EnterReceive(r)

\* An exception reaches listen().  Raised in the try block, it is handled by
\* one of the two except clauses: the handle is dropped, the ping task
\* cancelled and, unless told to stop, _reconnect_with_backoff() starts its
\* sleep.  Raised inside _reconnect_with_backoff(), which the except clauses
\* call, it leaves listen().  kind: "cc" for websockets.ConnectionClosed;
\* any other exception is named after its origin: "token" (get_id_token),
\* "handshake" (websockets.connect), "other" (the receive loop).
Fail(kind) ==
    /\ lrenew' = "none"
    /\ IF lctx = "reconnect"
       THEN /\ lpc' = "raised"
            /\ lerr' = kind
            /\ UNCHANGED <<lctx, li, lastWait, pings, ping_task, reconnect_delay, fails>>
            /\ ConnUnchanged
       ELSE /\ DropConn
            /\ pings' = CancelPing(pings, ping_task)
            /\ UNCHANGED <<li, ping_task, reconnect_delay, fails>>
            /\ IF KeepGoing
               THEN \E j \in Jitters(reconnect_delay) :
                       /\ lpc' = "backoff"
                       /\ lctx' = "reconnect"
                       /\ lastWait' = reconnect_delay + j
                       /\ UNCHANGED lerr
               ELSE /\ lpc' = (IF kind = "cc" THEN "ended" ELSE "raised")
                    /\ lerr' = (IF kind = "cc" THEN lerr ELSE kind)
                    /\ UNCHANGED <<lctx, lastWait>>

listenFrame == <<tmVars, apiVars, dispVars, running, appliances, hasRefresh, auto, dpc, dAwait, cpc, calls>>

\* The consumer starts iterating listen(auto_reconnect); after listen() has
\* raised it may call it again.
ListenStart(a) ==
    /\ lpc \in {"idle", "raised"}
    /\ dpc = "idle"
    /\ cpc \notin {"token", "handshake"}
    /\ running' = TRUE
    /\ auto' = a
    /\ lerr' = "none"
    /\ lrenew' = "none"
    /\ LoopTop(TRUE)
    /\ UNCHANGED <<tmVars, apiVars, dispVars, appliances, hasRefresh, dpc, dAwait, cpc, calls>>

\* _connect(): "await self._get_id_token()" returns or raises.
TokenDone(ok) ==
    /\ lpc = "token"
    /\ IF ok
       THEN /\ lpc' = "handshake"
            /\ lrenew' = "none"
            /\ UNCHANGED <<lctx, li, lastWait, lerr, pings, ping_task,
                           reconnect_delay, fails>>
            /\ ConnUnchanged
       ELSE Fail("token")
    /\ UNCHANGED listenFrame

\* _connect(): "await websockets.connect(...)" returns or raises; on success
\* the replay loop over self._appliances begins.
HandshakeDone(ok) ==
    /\ lpc = "handshake"
    /\ IF ok
       THEN /\ nConn < MaxConns
            /\ OpenConn(IF lctx = "try" THEN "listen" ELSE "reconnect")
            /\ lpc' = "replay"
            /\ li' = 1
            /\ UNCHANGED <<lctx, lastWait, lerr, lrenew, pings, ping_task>>
       ELSE Fail("handshake")
    /\ UNCHANGED listenFrame

\* One turn of "for serial, app, model in self._appliances: await
\* self.add_appliance(...)": add_appliance returns without sending when no
\* handle is held, else writes the message, which raises ConnectionClosed on a
\* closed transport.  Past the end of the list, listen() goes on: in the try
\* block to the ping task and the receive loop, after
\* _reconnect_with_backoff() to its while test.
ReplayStep ==
    /\ lpc = "replay"
    /\ IF li <= Len(appliances)
       THEN IF ws = 0
            THEN /\ li' = li + 1
                 /\ UNCHANGED <<lpc, lctx, lastWait, lerr, lrenew, pings, ping_task,
                                reconnect_delay, fails>>
                 /\ ConnUnchanged
            ELSE IF tstate = "open"
            THEN /\ li' = li + 1
                 /\ sent' = Append(sent, [a |-> ReplayItem(li), by |-> "replay"])
                 /\ UNCHANGED <<lpc, lctx, lastWait, lerr, lrenew, pings, ping_task,
                                reconnect_delay, fails>>
                 /\ UNCHANGED <<ws, tstate, nConn, openedBy, regAtOpen, pinged, pingFailed>>
            ELSE Fail("cc")
       ELSE /\ IF lctx = "try" THEN EnterReceive(running) ELSE LoopTop(running)
            /\ UNCHANGED <<lerr, lrenew>>
    /\ UNCHANGED listenFrame

\* _receive_loop(): a frame arrives, is handled and yielded to the consumer.
RecvMessage ==
    /\ lpc = "recv"
    /\ IsConnected
    /\ lpc' = "yielded"
    /\ UNCHANGED <<lctx, li, lastWait, lerr, lrenew, pings, ping_task, reconnect_delay, fails>>
    /\ ConnUnchanged
    /\ UNCHANGED listenFrame

\* The consumer asks for the next message.
ConsumerNext ==
    /\ lpc = "yielded"
    /\ lpc' = "recv"
    /\ UNCHANGED <<lctx, li, lastWait, lerr, lrenew, pings, ping_task, reconnect_delay, fails>>
    /\ ConnUnchanged
    /\ UNCHANGED listenFrame

\* _receive_loop(): the iteration over the connection raises ConnectionClosed
\* (the transport failed).
RecvFail ==
    /\ lpc = "recv"
    /\ ws # 0
    /\ tstate = "closed_err"
    /\ Fail("cc")
    /\ UNCHANGED listenFrame

\* _receive_loop(): any other exception while receiving or handling a frame.
RecvError ==
    /\ lpc = "recv"
    /\ IsConnected
    /\ Fail("other")
    /\ UNCHANGED listenFrame

\* _receive_loop(): the iteration ends without raising (the connection was
\* closed normally, or disconnect() took the handle); listen() is back at its
\* while test.
RecvEnd ==
    /\ lpc = "recv"
    /\ (tstate = "closed_ok" \/ ws = 0)
    /\ LoopTop(running)
    /\ UNCHANGED <<lerr, lrenew>>
    /\ UNCHANGED listenFrame

\* _reconnect_with_backoff(), after the sleep: "if self._refresh_callback:
\* await self._refresh_callback()", else straight to _connect().
AfterBackoffConnect == "token"
AfterBackoff == IF hasRefresh THEN "renew" ELSE "token"

\* _reconnect_with_backoff(): the sleep ends; the delay is doubled (capped)
\* and the refresh callback, if any, is awaited.
BackoffDone ==
    /\ lpc = "backoff"
    /\ fails < MaxFails
    /\ reconnect_delay' = NextDelay(reconnect_delay)
    /\ fails' = fails + 1
    /\ lastWait' = 0
    /\ lpc' = AfterBackoff
    /\ UNCHANGED <<lctx, li, lerr, lrenew, pings, ping_task>>
    /\ ConnUnchanged
    /\ UNCHANGED listenFrame

\* _reconnect_with_backoff(): the refresh callback returns or raises; the
\* exception is logged and _connect() is called either way.
RenewDone(ok) ==
    /\ lpc = "renew"
    /\ lpc' = "token"
    /\ lrenew' = (IF ok THEN "ok" ELSE "failed")
    /\ UNCHANGED <<lctx, li, lastWait, lerr, pings, ping_task, reconnect_delay, fails>>
    /\ ConnUnchanged
    /\ UNCHANGED listenFrame

\* A _ping_loop task wakes from its sleep: it sends a ping if a handle is held
\* (an exception is logged) and tests "while self._running and self._ws".
PingWake(i) ==
    /\ i \in 1..Len(pings)
    /\ pings[i] = "alive"
    /\ pinged' = (pinged \/ IsConnected)
    /\ pingFailed' = (pingFailed \/ (ws # 0 /\ tstate # "open"))
    /\ pings' = IF running /\ ws # 0 THEN pings ELSE [pings EXCEPT ![i] = "done"]
    /\ UNCHANGED <<tmVars, apiVars, dispVars, ws, tstate, running, reconnect_delay, appliances, ping_task,
                   hasRefresh, lpc, lctx, li, auto, lastWait, lerr, lrenew, dpc, dAwait, cpc,
                   nConn, openedBy, regAtOpen, sent, fails, calls>>

\* A cancelled _ping_loop task gets its CancelledError and finishes.
PingCancelled(i) ==
    /\ i \in 1..Len(pings)
    /\ pings[i] = "cancelling"
    /\ pings' = [pings EXCEPT ![i] = "done"]
    /\ UNCHANGED <<tmVars, apiVars, dispVars, ws, tstate, running, reconnect_delay, appliances, ping_task,
                   hasRefresh, lpc, lctx, li, auto, lastWait, lerr, lrenew, dpc, dAwait, cpc,
                   nConn, openedBy, regAtOpen, sent, pinged, pingFailed, fails, calls>>

\* disconnect(), from "self._ping_task = None" on: the handle, if one is held,
\* is closed ("await self._ws.close()").
DisconnectClose ==
    /\ ping_task' = 0
    /\ IF ws # 0
       THEN /\ tstate' = IF tstate = "open" THEN "closed_ok" ELSE tstate
            /\ dpc' = "closing"
       ELSE /\ dpc' = "done"
            /\ UNCHANGED tstate
    /\ UNCHANGED <<ws, nConn, openedBy, regAtOpen, sent, pinged, pingFailed>>

\* A caller calls disconnect(): running is cleared, the ping task cancelled
\* and awaited (no suspension when it has already finished).
DisconnectCall ==
    /\ dpc = "idle"
    /\ cpc \notin {"token", "handshake"}
    /\ running' = FALSE
    /\ IF ping_task # 0 /\ pings[ping_task] # "done"
       THEN /\ pings' = CancelPing(pings, ping_task)
            /\ dAwait' = ping_task
            /\ dpc' = "await_ping"
            /\ UNCHANGED <<ping_task, ws, tstate, nConn, openedBy, regAtOpen, sent, pinged, pingFailed>>
       ELSE /\ DisconnectClose
            /\ UNCHANGED <<pings, dAwait>>
    /\ UNCHANGED <<tmVars, apiVars, dispVars, reconnect_delay, appliances, hasRefresh, lpc, lctx, li, auto,
                   lastWait, lerr, lrenew, cpc, fails, calls>>

\* disconnect(): the awaited ping task has finished.
DisconnectAfterPing ==
    /\ dpc = "await_ping"
    /\ pings[dAwait] = "done"
    /\ DisconnectClose
    /\ UNCHANGED <<tmVars, apiVars, dispVars, running, reconnect_delay, appliances, pings, hasRefresh, lpc,
                   lctx, li, auto, lastWait, lerr, lrenew, dAwait, cpc, fails, calls>>

\* disconnect(): close() has returned; "self._ws = None".
DisconnectCloseDone ==
    /\ dpc = "closing"
    /\ DropConn
    /\ dpc' = "done"
    /\ UNCHANGED <<tmVars, apiVars, dispVars, running, reconnect_delay, appliances, pings, ping_task,
                   hasRefresh, lpc, lctx, li, auto, lastWait, lerr, lrenew, dAwait, cpc,
                   fails, calls>>

\* add_appliance: "if appliance not in self._appliances:
\* self._appliances.append(appliance)".
RegisteredAgain(list, a) == Append(list, a)
RegisteredWhenConnected(list, a) ==
    IF ws = 0 \/ a \in Range(list) THEN list ELSE Append(list, a)
Registered(list, a) == IF a \in Range(list) THEN list ELSE Append(list, a)

\* A caller calls add_appliance(a): the subscription is appended unless
\* already registered; it is sent when a handle is held (on a closed transport
\* the send raises to the caller).  Serials are numbered in the order of their
\* first registration.
AddAppliance(a) ==
    /\ calls < MaxCalls
    /\ a <= Len(appliances) + 1
    /\ calls' = calls + 1
    /\ appliances' = Registered(appliances, a)
    /\ sent' = IF IsConnected THEN Append(sent, [a |-> a, by |-> "call"]) ELSE sent
    /\ UNCHANGED <<tmVars, apiVars, dispVars, ws, tstate, running, reconnect_delay, pings, ping_task,
                   hasRefresh, lpc, lctx, li, auto, lastWait, lerr, lrenew, dpc, dAwait, cpc,
                   nConn, openedBy, regAtOpen, pinged, pingFailed, fails>>

\* A caller calls connect() on a client that is not listening; it may call it
\* again once the previous call has returned or raised.
ConnectCall ==
    /\ cpc \in {"idle", "done", "raised"}
    /\ lpc = "idle"
    /\ dpc = "idle"
    /\ cpc' = "token"
    /\ UNCHANGED <<tmVars, apiVars, dispVars, ws, tstate, running, reconnect_delay, appliances, pings,
                   ping_task, hasRefresh, lpc, lctx, li, auto, lastWait, lerr, lrenew, dpc,
                   dAwait, nConn, openedBy, regAtOpen, sent, pinged, pingFailed, fails, calls>>

\* connect(): "await self._get_id_token()" returns or raises.
ConnectToken(ok) ==
    /\ cpc = "token"
    /\ cpc' = IF ok THEN "handshake" ELSE "raised"
    /\ UNCHANGED <<tmVars, apiVars, dispVars, ws, tstate, running, reconnect_delay, appliances, pings,
                   ping_task, hasRefresh, lpc, lctx, li, auto, lastWait, lerr, lrenew, dpc,
                   dAwait, nConn, openedBy, regAtOpen, sent, pinged, pingFailed, fails, calls>>

\* connect(): "await websockets.connect(...)" returns or raises.
ConnectHandshake(ok) ==
    /\ cpc = "handshake"
    /\ IF ok
       THEN /\ nConn < MaxConns
            /\ OpenConn("connect")
            /\ cpc' = "done"
       ELSE /\ cpc' = "raised"
            /\ UNCHANGED <<reconnect_delay, fails>>
            /\ ConnUnchanged
    /\ UNCHANGED <<tmVars, apiVars, dispVars, running, appliances, pings, ping_task, hasRefresh, lpc, lctx,
                   li, auto, lastWait, lerr, lrenew, dpc, dAwait, calls>>

\* The network or the server ends the held connection: a normal close
\* ("closed_ok") or a failure ("closed_err").
TransportClose(kind) ==
    /\ IsConnected
    /\ tstate' = kind
    /\ UNCHANGED <<tmVars, apiVars, dispVars, ws, running, reconnect_delay, appliances, pings, ping_task,
                   hasRefresh, lpc, lctx, li, auto, lastWait, lerr, lrenew, dpc, dAwait, cpc,
                   nConn, openedBy, regAtOpen, sent, pinged, pingFailed, fails, calls>>

\* A client freshly constructed (__init__).
WSIdle(cb) ==
    /\ ws = 0
    /\ tstate = "none"
    /\ running = FALSE
    /\ reconnect_delay = RECONNECT_BASE_DELAY
    /\ appliances = <<>>
    /\ pings = <<>>
    /\ ping_task = 0
    /\ hasRefresh = cb
    /\ lpc = "idle"
    /\ lctx = "try"
    /\ li = 1
    /\ auto = TRUE
    /\ lastWait = 0
    /\ lerr = "none"
    /\ lrenew = "none"
    /\ dpc = "idle"
    /\ dAwait = 0
    /\ cpc = "idle"
    /\ nConn = 0
    /\ openedBy = "none"
    /\ regAtOpen = 0
    /\ sent = <<>>
    /\ pinged = FALSE
    /\ pingFailed = FALSE
    /\ fails = 0
    /\ calls = 0

-----------------------------------------------------------------------------
(* ws_client.py: _receive_loop and _handle_message; models.py: StateReport, *)
(* DeviceState                                                              *)

(* Bounds of the model *)

MaxDev == 2
MaxVer == 2
MaxFrames == 3
MaxApiCalls == 2

Devices == 1..MaxDev
Versions == 1..MaxVer

\* A frame read from the connection.  json: "invalid" (json.loads raises
\* JSONDecodeError), "nonobject" (valid JSON, not an object: a list, a number,
\* a string) or "object".  For an object: mt is its "messageType" ("none":
\* key absent), serial its "serialNumber" (0: absent), data its "data" (0:
\* absent or not an object; else the payload's identity), version its
\* "version", message its "message" key.
Frame(j, mt, serial, data, version, message) ==
    [json |-> j, mt |-> mt, serial |-> serial, data |-> data, version |-> version,
     message |-> message]

FramesIn ==
    { Frame("invalid", "none", 0, 0, 0, ""),
      Frame("nonobject", "none", 0, 0, 0, ""),
      Frame("object", "pong", 0, 0, 0, ""),
      Frame("object", "none", 0, 0, 0, "Forbidden"),
      Frame("object", "other", 0, 0, 0, ""),
      \* stateReports that fail validation: no serialNumber; data not an object
      Frame("object", "stateReport", 0, 1, 1, ""),
      Frame("object", "stateReport", 1, 0, 1, "") }
    \cup { Frame("object", "stateReport", d, 1, v, "") : d \in Devices, v \in Versions }

\* Every frame carries its own payload: the n-th frame's is numbered n.
Stamp(f, n) == IF f.data # 0 THEN [f EXCEPT !.data = n] ELSE f

NoState == [serial_number |-> 0, raw_data |-> 0, version |-> 0]

\* StateReport.model_validate(data): serialNumber, messageType = "stateReport"
\* and a dict data are required.
ModelValidateLax(m) == m.mt = "stateReport"
ModelValidate(m) == m.mt = "stateReport" /\ m.serial # 0 /\ m.data # 0

\* DeviceState.from_state_report(report)
FromStateReport(m) ==
    [serial_number |-> m.serial, raw_data |-> m.data, version |-> m.version]

\* self._state_cache[report.serial_number] = state
StoreStateIfNewer(cache, st) ==
    IF st.serial_number \in DOMAIN cache /\ cache[st.serial_number].version > st.version
    THEN cache
    ELSE [d \in DOMAIN cache \cup {st.serial_number} |->
            IF d = st.serial_number THEN st ELSE cache[d]]
StoreState(cache, st) ==
    [d \in DOMAIN cache \cup {st.serial_number} |->
        IF d = st.serial_number THEN st ELSE cache[d]]

\* "if self._on_state: self._on_state(state)"
NotifyStateTwice(cs, st) == IF hasOnState THEN cs \o <<st, st>> ELSE cs
NotifyState(cs, st) == IF hasOnState THEN Append(cs, st) ELSE cs

\* _handle_message(data), past the raw callback and ".get", for an object.
\* HandleObjectResetting is the variant that empties the cache on a Forbidden
\* payload.
HandleObjectResetting(m) ==
    IF m.mt = "stateReport" /\ ModelValidate(m)
    THEN /\ state_cache' = StoreState(state_cache, FromStateReport(m))
         /\ stateCalls' = NotifyState(stateCalls, FromStateReport(m))
    ELSE IF m.message = "Forbidden"
    THEN /\ state_cache' = [d \in {} |-> NoState]
         /\ UNCHANGED stateCalls
    ELSE UNCHANGED <<state_cache, stateCalls>>
\* HandleObjectAfterYield is the variant in which a message is handled only
\* once the consumer has come back for the next one.
HandleObjectAfterYield(m) ==
    IF emitted # <<>> /\ emitted[Len(emitted)].mt = "stateReport"
                      /\ ModelValidate(emitted[Len(emitted)])
    THEN /\ state_cache' = StoreState(state_cache, FromStateReport(emitted[Len(emitted)]))
         /\ stateCalls' = NotifyState(stateCalls, FromStateReport(emitted[Len(emitted)]))
    ELSE UNCHANGED <<state_cache, stateCalls>>
HandleObject(m) ==
    IF m.mt = "stateReport" /\ ModelValidate(m)
    THEN /\ state_cache' = StoreState(state_cache, FromStateReport(m))
         /\ stateCalls' = NotifyState(stateCalls, FromStateReport(m))
    ELSE UNCHANGED <<state_cache, stateCalls>>

\* _receive_loop(): a frame arrives on the open connection.  Invalid JSON is
\* logged and the loop goes on.  Otherwise _handle_message(data) runs: the raw
\* callback is called with data, then data.get("messageType") raises
\* AttributeError unless data is an object, and that exception leaves
\* _receive_loop() and reaches listen(); an object is handled and yielded.
Dispatch(f) ==
    /\ lpc = "recv"
    /\ IsConnected
    /\ Len(inbox) < MaxFrames
    /\ LET m == Stamp(f, Len(inbox) + 1)
       IN  /\ inbox' = Append(inbox, m)
           /\ IF m.json = "invalid"
              THEN /\ UNCHANGED <<state_cache, stateCalls, rawCalls, emitted>>
                   /\ UNCHANGED <<lpc, lctx, li, lastWait, lerr, lrenew, pings, ping_task,
                                  reconnect_delay, fails>>
                   /\ ConnUnchanged
              ELSE /\ rawCalls' = IF hasOnRaw THEN Append(rawCalls, m) ELSE rawCalls
                   /\ IF m.json = "nonobject"
                      THEN /\ Fail("other")
                           /\ UNCHANGED <<state_cache, stateCalls, emitted>>
                      ELSE /\ HandleObject(m)
                           /\ emitted' = Append(emitted, m)
                           /\ lpc' = "yielded"
                           /\ UNCHANGED <<lctx, li, lastWait, lerr, lrenew, pings,
                                          ping_task, reconnect_delay, fails>>
                           /\ ConnUnchanged
    /\ UNCHANGED <<tmVars, apiVars, hasOnState, hasOnRaw, running, appliances, hasRefresh, auto,
                   dpc, dAwait, cpc, calls>>

\* listen_states(): of the messages listen() yields, those of type
\* stateReport that validate are turned into DeviceStates and yielded; the
\* others are skipped (a validation failure is logged).
YieldsStateAlways(m) == TRUE
YieldsState(m) == m.mt = "stateReport" /\ ModelValidate(m)
ListenStates(stream) ==
    LET sel == SelectSeq(stream, YieldsState)
    IN  [i \in 1..Len(sel) |-> FromStateReport(sel[i])]

\* A caller registers a first subscription before listen() is iterated, as
\* SageCoffeeClient.connect_state_stream does.
SubscribeBeforeListen ==
    /\ lpc = "idle"
    /\ calls = 0
    /\ AddAppliance(1)

\* The dispatcher of a client freshly constructed (__init__).
DispIdle(os, orw) ==
    /\ state_cache = [d \in {} |-> NoState]
    /\ hasOnState = os
    /\ hasOnRaw = orw
    /\ inbox = <<>>
    /\ stateCalls = <<>>
    /\ rawCalls = <<>>
    /\ emitted = <<>>

-----------------------------------------------------------------------------
(* http_api.py: BrevilleApiClient.request *)

\* The status codes the server answers with.
StatusCodes == {200, 204, 401, 429, 500}

\* "if response.status_code == 401 and retry_on_401 and self._refresh_callback",
\* evaluated once, on the response to the first request.  RetriesOn401Again is
\* the variant that evaluates it on every response.
RetriesOn401Again(stage, status) ==
    status = 401 /\ retry_on_401 /\ hasApiRefresh
RetriesOn401(stage, status) ==
    stage = "request" /\ status = 401 /\ retry_on_401 /\ hasApiRefresh

\* "if response.status_code == 429", evaluated once, on the response held
\* after the 401 block.
Backs429(stage, status) == stage # "retry429" /\ status = 429

\* response.raise_for_status(): a 4xx or 5xx status raises HTTPStatusError,
\* which request() logs and re-raises.
RaiseForStatus(status) == status >= 400

\* A caller calls request(); no call is in progress.
ApiCall(r) ==
    /\ apc \in {"idle", "done", "raised"}
    /\ apiCalls < MaxApiCalls
    /\ apiCalls' = apiCalls + 1
    /\ apc' = "headers"
    /\ retry_on_401' = r
    /\ responses' = <<>>
    /\ nRefresh' = 0
    /\ nRequests' = 0
    /\ UNCHANGED <<tmVars, wsVars, dispVars, hasApiRefresh>>

\* _get_headers() returns (get_id_token() returned) and the request is sent,
\* or it raises and request() propagates the error.
ApiHeadersDone(ok) ==
    /\ apc \in {"headers", "headers2"}
    /\ IF ok
       THEN /\ apc' = IF apc = "headers" THEN "request" ELSE "retry"
            /\ nRequests' = nRequests + 1
       ELSE /\ apc' = "raised"
            /\ UNCHANGED nRequests
    /\ UNCHANGED <<tmVars, wsVars, dispVars, retry_on_401, hasApiRefresh, responses,
                   nRefresh, apiCalls>>

\* client.request() returns a response with the given status: the call goes on
\* to the refresh callback, to the rate-limit wait, or ends.
ApiResponse(status) ==
    /\ apc \in {"request", "retry", "retry429"}
    /\ responses' = Append(responses, status)
    /\ IF RetriesOn401(apc, status)
       THEN /\ apc' = "refresh"
            /\ nRefresh' = nRefresh + 1
       ELSE /\ apc' = IF Backs429(apc, status) THEN "sleep"
                      ELSE IF RaiseForStatus(status) THEN "raised"
                      ELSE "done"
            /\ UNCHANGED nRefresh
    /\ UNCHANGED <<tmVars, wsVars, dispVars, retry_on_401, hasApiRefresh, nRequests,
                   apiCalls>>

\* client.request() raises (a transport error): request() propagates it.
ApiRequestError ==
    /\ apc \in {"request", "retry", "retry429"}
    /\ apc' = "raised"
    /\ UNCHANGED <<tmVars, wsVars, dispVars, retry_on_401, hasApiRefresh, responses,
                   nRefresh, nRequests, apiCalls>>

\* "await self._refresh_callback()" returns, or raises and request()
\* propagates the error.
ApiRefreshDone(ok) ==
    /\ apc = "refresh"
    /\ apc' = IF ok THEN "headers2" ELSE "raised"
    /\ UNCHANGED <<tmVars, wsVars, dispVars, retry_on_401, hasApiRefresh, responses,
                   nRefresh, nRequests, apiCalls>>

\* "await asyncio.sleep(retry_after)" ends and the request is sent again.
ApiSleepDone ==
    /\ apc = "sleep"
    /\ apc' = "retry429"
    /\ nRequests' = nRequests + 1
    /\ UNCHANGED <<tmVars, wsVars, dispVars, retry_on_401, hasApiRefresh, responses,
                   nRefresh, apiCalls>>

\* An API client freshly constructed (__init__).
ApiIdle(cb) ==
    /\ apc = "idle"
    /\ retry_on_401 = TRUE
    /\ hasApiRefresh = cb
    /\ responses = <<>>
    /\ nRefresh = 0
    /\ nRequests = 0
    /\ apiCalls = 0

-----------------------------------------------------------------------------
(* Specifications *)

InitTM ==
    /\ \E ts \in InitTokenSets, st \in {-1, 0} : TMIdle(ts, st)
    /\ WSIdle(TRUE)
    /\ DispIdle(FALSE, FALSE)
    /\ ApiIdle(TRUE)

InitWS ==
    /\ TMIdle(NoTokens, -1)
    /\ \E cb \in BOOLEAN : WSIdle(cb)
    /\ DispIdle(FALSE, FALSE)
    /\ ApiIdle(TRUE)

NextTM ==
    \/ \E t \in Tasks, op \in Ops : Call(t, op)
    \/ \E t \in Tasks : Resume(t)
    \/ \E t \in Tasks, resp \in Responses : ExchangeReturn(t, resp)
    \/ Tick

SpecTM == InitTM /\ [][NextTM]_vars

\* The event loop resumes the task at the head of the lock's queue once the
\* lock is free, and every exchange comes back (with a response or an error).
FairTM ==
    \A t \in Tasks :
        /\ WF_vars(Resume(t))
        /\ WF_vars(\E resp \in Responses : ExchangeReturn(t, resp))

\* The callers of the manager at one instant (fresh and expired sets alike),
\* scheduled fairly.
NextTMFair ==
    \/ \E t \in Tasks, op \in Ops : Call(t, op)
    \/ \E t \in Tasks : Resume(t)
    \/ \E t \in Tasks, resp \in Responses : ExchangeReturn(t, resp)

SpecTMFair == InitTM /\ [][NextTMFair]_vars /\ FairTM

NextWS ==
    \/ \E a \in BOOLEAN : ListenStart(a)
    \/ \E ok \in BOOLEAN : TokenDone(ok)
    \/ \E ok \in BOOLEAN : HandshakeDone(ok)
    \/ ReplayStep
    \/ RecvMessage
    \/ ConsumerNext
    \/ RecvFail
    \/ RecvError
    \/ RecvEnd
    \/ BackoffDone
    \/ \E ok \in BOOLEAN : RenewDone(ok)
    \/ \E i \in 1..MaxPings : PingWake(i)
    \/ \E i \in 1..MaxPings : PingCancelled(i)
    \/ DisconnectCall
    \/ DisconnectAfterPing
    \/ DisconnectCloseDone
    \/ \E a \in Appliances : AddAppliance(a)
    \/ ConnectCall
    \/ \E ok \in BOOLEAN : ConnectToken(ok)
    \/ \E ok \in BOOLEAN : ConnectHandshake(ok)
    \/ \E kind \in {"closed_ok", "closed_err"} : TransportClose(kind)

SpecWS == InitWS /\ [][NextWS]_vars

\* listen() on a client without refresh callback, its consumer, and the frames
\* the server sends.
InitDisp ==
    /\ TMIdle(NoTokens, -1)
    /\ WSIdle(FALSE)
    /\ \E os \in BOOLEAN, orw \in BOOLEAN : DispIdle(os, orw)
    /\ ApiIdle(TRUE)

NextDisp ==
    \/ SubscribeBeforeListen
    \/ \E a \in BOOLEAN : ListenStart(a)
    \/ TokenDone(TRUE)
    \/ HandshakeDone(TRUE)
    \/ ReplayStep
    \/ \E f \in FramesIn : Dispatch(f)
    \/ ConsumerNext
    \/ BackoffDone

SpecDisp == InitDisp /\ [][NextDisp]_vars

\* request() calls on an API client, with or without a refresh callback.
InitApi ==
    /\ TMIdle(NoTokens, -1)
    /\ WSIdle(FALSE)
    /\ DispIdle(FALSE, FALSE)
    /\ \E cb \in BOOLEAN : ApiIdle(cb)

NextApi ==
    \/ \E r \in BOOLEAN : ApiCall(r)
    \/ \E ok \in BOOLEAN : ApiHeadersDone(ok)
    \/ \E status \in StatusCodes : ApiResponse(status)
    \/ ApiRequestError
    \/ \E ok \in BOOLEAN : ApiRefreshDone(ok)
    \/ ApiSleepDone

SpecApi == InitApi /\ [][NextApi]_vars

-----------------------------------------------------------------------------
(* Claims about the credential manager, checked under SpecTM *)

InFlight == {t \in Tasks : tpc[t] = "exchange"}
Called == {t \in Tasks : tpc[t] # "idle"}

\* C1: under any interleaving of callers of get_id_token(), get_access_token()
\* and refresh(), at most one renewal exchange (AuthClient.refresh call) is in
\* flight at any time.
C1_AtMostOneExchangeInFlight == Cardinality(InFlight) <= 1

\* An exchange is in flight while another caller is queued on the lock.
C1_Witness ==
    \E t \in Tasks, u \in Tasks :
        t # u /\ tpc[t] = "exchange" /\ tpc[u] = "waiting" /\ top[u] # top[t]

\* The scenario of C2: two or more get_access_token() calls, all made while
\* the cached set was expired, have all completed; the exchange succeeded
\* (none was rejected) with a set that carries an access credential and is
\* still unexpired.
C2_Scenario ==
    /\ Cardinality(Called) >= 2
    /\ \A t \in Called :
          /\ top[t] = "get_access_token"
          /\ expiredAtCall[t]
          /\ tpc[t] = "done"
          /\ tres[t].err # "HTTPStatusError"
    /\ firstSet.some
    /\ firstSet.access_token.n # 0
    /\ ~IsExpired(firstSet, SkewSeconds, now)

\* C2: N >= 2 concurrent get_access_token() calls on an expired set perform
\* exactly one renewal exchange and all return the same renewed access
\* credential.
C2_SingleFlight ==
    C2_Scenario =>
        /\ nExch = 1
        /\ \A t \in Called : tres[t] = Returned(firstSet.access_token, tres[t].at)

\* The scenario has happened, with a caller that waited for the lock and
\* returned after the renewal without renewing.
C2_Witness ==
    /\ C2_Scenario
    /\ nExch = 1
    /\ \E t \in Called : presented[t] = 0 /\ tres[t].kind = "ret"
    /\ \E t \in Called : presented[t] # 0 /\ tres[t].kind = "ret"

\* C10: whenever get_access_token() or get_id_token() returns a string, that
\* credential is not within skew_seconds of its own (decodable) expiry at the
\* moment of return.
C10_ReturnsOnlyValid ==
    \A t \in Tasks :
        (/\ tpc[t] = "done"
         /\ top[t] \in {"get_id_token", "get_access_token"}
         /\ tres[t].kind = "ret"
         /\ tres[t].cred.exp # 0)
        => tres[t].at < tres[t].cred.exp - SkewSeconds

Gets == {"get_id_token", "get_access_token"}

\* Task t enters the critical section in this step.
EntersSection(t) == tpc[t] \in {"idle", "waiting"} /\ tpc'[t] \notin {"idle", "waiting"}

\* C11: when the renewal exchange is rejected, the error reaches the caller
\* and the cached set (and the store) is left as it was; the next
\* get_id_token() / get_access_token() call, finding the same stale set,
\* starts a renewal again with the same renewal secret instead of returning
\* the cached credential.
C11_RejectedRenewal ==
    [][\A t \in Tasks :
        /\ (tpc[t] = "exchange" /\ tres'[t].err = "HTTPStatusError")
            => /\ tpc'[t] = "done"
               /\ tres'[t].kind = "raise"
               /\ tokens' = tokens
               /\ stored' = stored
        /\ \A u \in Tasks :
            (/\ u = t + 1
             /\ tres[t].err = "HTTPStatusError"
             /\ top[t] \in Gets \/ IsExpired(tokens, SkewSeconds, now)
             /\ EntersSection(u)
             /\ top'[u] \in Gets)
            => /\ tpc'[u] = "exchange"
               /\ presented'[u] = presented[t]
               /\ nExch' = nExch + 1]_vars

\* A get call's exchange was rejected and the next get call is in its own
\* exchange, on the same cached set.
C11_Witness ==
    \E t \in Tasks, u \in Tasks :
        /\ u = t + 1
        /\ top[t] \in Gets /\ top[u] \in Gets
        /\ tres[t].err = "HTTPStatusError"
        /\ tpc[u] = "exchange"
        /\ presented[u] = presented[t]
        /\ nExch = 2

\* C12: refresh() on a manager whose cached set is absent or carries no
\* refresh_token raises ValueError, calls the exchange zero times and leaves
\* the cached set unchanged.
C12_ForcedRenewalWithoutSecret ==
    [][\A t \in Tasks :
        (/\ EntersSection(t)
         /\ top'[t] = "refresh"
         /\ ~tokens.some \/ tokens.refresh_token = 0)
        => /\ tpc'[t] = "done"
           /\ tres'[t] = Raised("ValueError: No refresh_token available", now)
           /\ nExch' = nExch
           /\ tokens' = tokens
           /\ stored' = stored]_vars

\* refresh() has raised on a cached set that carries credentials but no
\* refresh_token, without any exchange having been made.
C12_Witness ==
    /\ \E t \in Tasks :
        /\ top[t] = "refresh" /\ tpc[t] = "done" /\ tres[t].kind = "raise"
        /\ (tokens.some /\ tokens.refresh_token = 0 /\ tokens.id_token.n # 0)
    /\ nExch = 0

-----------------------------------------------------------------------------
(* Claims about the connection supervisor, checked under SpecWS *)

\* The subscriptions listen()'s replay loop has sent on the held connection.
ReplaySent == SelectSeq(sent, LAMBDA m : m.by = "replay")
ReplayedIds == [i \in 1..Len(ReplaySent) |-> ReplaySent[i].a]
SentIds == {sent[i].a : i \in 1..Len(sent)}

\* _reconnect_with_backoff() returns (its replay loop has run past the end of
\* the list, nothing raised) with the connection it opened still held.
ReconnectReturns ==
    /\ lpc = "replay"
    /\ lctx = "reconnect"
    /\ lpc' \notin {"replay", "raised"}
    /\ ws # 0

\* C3: after any reconnect performed by listen(), every subscription
\* registered before the reconnect has been re-sent on the new connection by
\* the replay, in registration order, each exactly once, whatever
\* add_appliance() calls ran meanwhile.
C3_ReplayAfterReconnect ==
    [][ ReconnectReturns =>
          /\ regAtOpen <= Len(ReplayedIds)
          /\ Len(ReplayedIds) <= Len(appliances)
          /\ ReplayedIds = SubSeq(appliances, 1, Len(ReplayedIds))
          /\ \A i \in 1..Len(ReplayedIds), j \in 1..Len(ReplayedIds) :
                i # j => ReplayedIds[i] # ReplayedIds[j]
      ]_vars

\* A reconnect has replayed two subscriptions while an add_appliance() call
\* sent on the same connection, and listen() is receiving again.
C3_Witness ==
    /\ openedBy = "reconnect"
    /\ IsConnected
    /\ lpc = "recv"
    /\ Len(ReplayedIds) = 2
    /\ \E i \in 1..Len(sent) : sent[i].by = "call"

\* The pre-jitter delay the spec gives for the (k+1)-th wait since a
\* connection was last opened.
ExpectedDelays == <<1, 2, 4, 8, 16, 30>>
ExpectedDelay(k) ==
    ExpectedDelays[IF k + 1 < Len(ExpectedDelays) THEN k + 1 ELSE Len(ExpectedDelays)]

\* C4: the pre-jitter reconnect delay over successive failed attempts is
\* 1, 2, 4, 8, 16, 30, 30, ..., and it is 1 again as soon as a connection is
\* opened (fails counts the waits since then).
C4_DelaySequence == reconnect_delay = ExpectedDelay(fails)

\* The seventh wait in a row, after a connection had once been opened.
C4_Witness ==
    /\ lpc = "backoff"
    /\ fails = 6
    /\ reconnect_delay = RECONNECT_MAX_DELAY
    /\ lastWait >= RECONNECT_MAX_DELAY
    /\ nConn >= 1

\* C5: with auto_reconnect on, the stream returned by listen() terminates
\* (ends or raises) only after an explicit disconnect(); a failed handshake
\* or a lost connection alone does not terminate it.  (A stream ended by
\* get_id_token() raising, the credential being unobtainable, is left aside.)
C5_StreamEndsOnlyOnDisconnect ==
    (auto /\ lpc \in {"ended", "raised"} /\ lerr # "token") => dpc # "idle"

\* C6: a failure of the receive loop during Open, with auto_reconnect on and
\* no disconnect requested, moves listen() into _reconnect_with_backoff() with
\* the handle released and the ping task cancelled, instead of ending or
\* raising; the wait and the renewal are followed by the connect attempt.
C6_RecvFailureReconnects ==
    [][ /\ (/\ lpc = "recv"
            /\ ws # 0
            /\ tstate # "closed_ok"
            /\ auto
            /\ running
            /\ lpc' \notin {"recv", "yielded"})
           => (/\ lpc' = "backoff"
               /\ lctx' = "reconnect"
               /\ ws' = 0
               /\ (ping_task # 0 => pings'[ping_task] # "alive"))
        /\ (lpc = "backoff" => lpc' \in {"backoff", "renew", "token"})
        /\ (lpc = "renew" => lpc' \in {"renew", "token"})
      ]_vars

\* The receive loop of an open connection failed and listen() is waiting to
\* reconnect.
C6_Witness ==
    /\ lpc = "backoff"
    /\ ws = 0
    /\ nConn >= 1
    /\ ping_task # 0
    /\ pings[ping_task] # "alive"
    /\ auto
    /\ running
    /\ dpc = "idle"

\* C7: once disconnect() has been called, no connection is opened.
C7_NoReconnectAfterDisconnect ==
    [][dpc # "idle" => nConn' = nConn]_vars

\* C8: after disconnect() has returned the keepalive task is cancelled, no
\* handle is held and the supervisor is not running.
C8_DisconnectLeavesIdle ==
    dpc = "done" =>
        /\ ws = 0
        /\ ~running
        /\ ~IsConnected
        /\ (ping_task # 0 => pings[ping_task] # "alive")

\* C9: once a connection is open and no replay is in progress, every
\* registered subscription has been sent on it, and the replay sent them in
\* registration order.
C9_OpenReplaysAll ==
    (IsConnected /\ lpc # "replay") =>
        /\ Range(appliances) \subseteq SentIds
        /\ Len(ReplayedIds) <= Len(appliances)
        /\ ReplayedIds = SubSeq(appliances, 1, Len(ReplayedIds))

\* C13: when the refresh callback awaited before a reconnect attempt has
\* failed, listen() goes on to the handshake of that attempt; it does not end
\* or raise at the credential step.
C13_FailedRenewalNotFatal ==
    [][ (lpc = "token" /\ lctx = "reconnect" /\ lrenew = "failed")
            => lpc' \in {"token", "handshake"} ]_vars

\* listen() moves on from its receive loop in this step: it leaves the loop,
\* or comes back to it through its while test with a new ping task.
ListenMoves == lpc' # lpc \/ ping_task' # ping_task

\* C14: when the connection held by a running listen() has been closed
\* normally by the peer (no disconnect() requested, auto_reconnect on) and the
\* receive loop's iteration ends, the handle is released and the backoff wait
\* begins.
C14_ProtocolCloseReconnects ==
    [][ (/\ lpc = "recv"
         /\ ws # 0
         /\ tstate = "closed_ok"
         /\ auto /\ running
         /\ dpc = "idle" /\ dpc' = "idle"
         /\ ListenMoves)
        => (lpc' = "backoff" /\ lctx' = "reconnect" /\ ws' = 0) ]_vars

\* C15: when a ping written by the keepalive task raises, the receive loop is
\* stopped and listen() enters the backoff wait with the handle released.
C15_PingFailureReconnects ==
    [][ (~pingFailed /\ pingFailed' /\ auto /\ running /\ dpc = "idle")
            => (lpc' = "backoff" /\ lctx' = "reconnect" /\ ws' = 0) ]_vars

-----------------------------------------------------------------------------
(* Claims about the dispatcher, checked under SpecDisp *)

\* A well-formed stateReport: an object of type stateReport with a serial
\* number and a payload.  A malformed one lacks either.
WellFormedReport(m) ==
    m.json = "object" /\ m.mt = "stateReport" /\ m.serial # 0 /\ m.data # 0
MalformedReport(m) ==
    m.json = "object" /\ m.mt = "stateReport" /\ (m.serial = 0 \/ m.data = 0)

\* The arrival numbers of the well-formed reports for device d.
ReportsFor(d) ==
    {i \in 1..Len(inbox) : WellFormedReport(inbox[i]) /\ inbox[i].serial = d}
LastOf(S) == CHOOSE i \in S : \A j \in S : j <= i

\* A frame is dispatched in this step; it is the last of inbox'.
Dispatched == Len(inbox') = Len(inbox) + 1
Arrived == inbox'[Len(inbox')]

\* C16: the cache holds an entry exactly for the devices a well-formed
\* stateReport has been dispatched for (one per device, never evicted), and
\* each entry is the state of the last such report, whatever its version.
C16_CacheLastWriteWins ==
    /\ DOMAIN state_cache = {d \in Devices : ReportsFor(d) # {}}
    /\ \A d \in DOMAIN state_cache :
          LET m == inbox[LastOf(ReportsFor(d))]
          IN  state_cache[d] =
                [serial_number |-> d, raw_data |-> m.data, version |-> m.version]

\* Reports for X, Y, X were dispatched, the second X report with the lower
\* version: two entries, X holding the third frame's state.
C16_Witness ==
    /\ Len(inbox) = 3
    /\ \A i \in 1..3 : WellFormedReport(inbox[i])
    /\ inbox[1].serial = 1 /\ inbox[2].serial = 2 /\ inbox[3].serial = 1
    /\ inbox[3].version < inbox[1].version
    /\ Cardinality(DOMAIN state_cache) = 2
    /\ state_cache[1].raw_data = 3
    /\ state_cache[1].version = inbox[3].version

\* C17: dispatching a well-formed stateReport for device X sets the cache
\* entry of X to the state parsed from it, calls the state observer (when one
\* is registered) exactly once with that state, and yields the message to the
\* consumer of listen().
C17_StateReportDispatch ==
    [][ (Dispatched /\ WellFormedReport(Arrived))
        => LET m == Arrived
               st == [serial_number |-> m.serial, raw_data |-> m.data,
                      version |-> m.version]
           IN  /\ m.serial \in DOMAIN state_cache'
               /\ state_cache'[m.serial] = st
               /\ stateCalls' = (IF hasOnState THEN Append(stateCalls, st) ELSE stateCalls)
               /\ emitted' = Append(emitted, m)
               /\ lpc' = "yielded" ]_vars

\* With a state observer registered, a second report for a device has
\* replaced the first in the cache; the observer was called once per report.
C17_Witness ==
    /\ hasOnState
    /\ Len(inbox) = 2
    /\ WellFormedReport(inbox[1]) /\ WellFormedReport(inbox[2])
    /\ inbox[1].serial = inbox[2].serial
    /\ Len(stateCalls) = 2
    /\ stateCalls[2] = state_cache[inbox[2].serial]
    /\ stateCalls[2].raw_data = 2
    /\ Len(emitted) = 2

\* C18: dispatching a pong changes nothing the application can see: the
\* cache, the calls made to either observer and the messages yielded to the
\* consumer are as before.
C18_PongInvisible ==
    [][ (Dispatched /\ Arrived.json = "object" /\ Arrived.mt = "pong")
        => /\ UNCHANGED <<state_cache, stateCalls, rawCalls, emitted>>
           /\ lpc' = "recv" ]_vars

\* C19: whatever frame is dispatched, the receive loop goes on on the same
\* connection: nothing is raised to listen(), the handle is kept, no backoff
\* starts.
C19_FrameFailureStaysLocal ==
    [][ Dispatched => (lpc' \in {"recv", "yielded"} /\ ws' = ws /\ tstate' = tstate) ]_vars

\* C20: dispatching a stateReport that fails validation leaves the cache and
\* the state observer's calls unchanged and raises nothing (the loop goes on on
\* the same connection); a well-formed report dispatched after one is stored
\* as usual.
C20_MalformedReportNonFatal ==
    [][ /\ (Dispatched /\ MalformedReport(Arrived))
            => /\ UNCHANGED <<state_cache, stateCalls>>
               /\ lpc' \in {"recv", "yielded"}
               /\ ws' = ws /\ tstate' = tstate
        /\ (/\ Dispatched
            /\ WellFormedReport(Arrived)
            /\ \E i \in 1..Len(inbox) : MalformedReport(inbox[i]))
            => /\ Arrived.serial \in DOMAIN state_cache'
               /\ state_cache'[Arrived.serial].raw_data = Arrived.data ]_vars

\* Both kinds of malformed report were dispatched on one connection, then a
\* well-formed one, which is the only one cached and observed.
C20_Witness ==
    /\ Len(inbox) = 3
    /\ MalformedReport(inbox[1]) /\ inbox[1].serial = 0
    /\ MalformedReport(inbox[2]) /\ inbox[2].serial # 0
    /\ WellFormedReport(inbox[3])
    /\ nConn = 1
    /\ hasOnState
    /\ Len(stateCalls) = 1
    /\ DOMAIN state_cache = {inbox[3].serial}
    /\ state_cache[inbox[3].serial].raw_data = 3

\* The DeviceStates of the well-formed stateReports received so far, in
\* arrival order.
ReportedStates ==
    LET wf == SelectSeq(inbox, WellFormedReport)
    IN  [i \in 1..Len(wf) |->
            [serial_number |-> wf[i].serial, raw_data |-> wf[i].data,
             version |-> wf[i].version]]

\* C21: listen_states() yields exactly one DeviceState per well-formed
\* stateReport received, in arrival order, and nothing for a pong or any other
\* message.
C21_ListenStatesOnePerReport == ListenStates(emitted) = ReportedStates

\* A fresh client received a pong, then a stateReport for device 1:
\* listen_states() yielded one state, for device 1.
C21_Witness ==
    /\ nConn = 1
    /\ Len(inbox) = 2
    /\ inbox[1].mt = "pong"
    /\ WellFormedReport(inbox[2]) /\ inbox[2].serial = 1
    /\ Len(emitted) = 2
    /\ Len(ListenStates(emitted)) = 1
    /\ ListenStates(emitted)[1].serial_number = 1

\* C28: dispatching a Forbidden payload leaves the connection handle, the
\* cache, the subscription list and the reconnect delay unchanged and raises
\* nothing: the message is yielded and the loop goes on.
C28_ForbiddenNoReconnect ==
    [][ (Dispatched /\ Arrived.json = "object" /\ Arrived.message = "Forbidden")
        => /\ UNCHANGED <<ws, tstate, state_cache, appliances, reconnect_delay, fails>>
           /\ lpc' = "yielded"
           /\ lerr' = lerr ]_vars

\* With a subscription registered and a state cached, a Forbidden payload was
\* dispatched on the open connection.
C28_Witness ==
    /\ Len(inbox) = 2
    /\ WellFormedReport(inbox[1])
    /\ inbox[2].message = "Forbidden"
    /\ appliances = <<1>>
    /\ sent # <<>>
    /\ IsConnected
    /\ DOMAIN state_cache # {}
    /\ lpc = "yielded"

\* C22: a connection is opened only when no handle is held, so that the
\* client never leaves a connection it opened behind without having released
\* it.
C22_OpensOnlyWhenNoneHeld ==
    [][ nConn' # nConn => ws = 0 ]_vars

\* C23: the subscription list holds each subscription at most once, in the
\* order of first registration (serials are numbered in that order); a step
\* either leaves it unchanged or appends one subscription that was not in it.
C23_SubscriptionListOrdered ==
    [][ /\ appliances = [i \in 1..Len(appliances) |-> i]
        /\ \/ appliances' = appliances
           \/ /\ Len(appliances') = Len(appliances) + 1
              /\ SubSeq(appliances', 1, Len(appliances)) = appliances
              /\ appliances'[Len(appliances')] \notin Range(appliances) ]_vars

\* A subscription was requested twice and is held once, and the client has
\* since reconnected and been disconnected.
C23_Witness ==
    /\ appliances = <<1>>
    /\ calls = 2
    /\ nConn = 2
    /\ dpc = "done"

\* C30: inside a reconnect attempt the steps follow in order: the backoff wait,
\* then the refresh callback when one is configured, then _connect() (the
\* credential, then the handshake), then the replay; each starts only from the
\* one before it.
C30_ReconnectStepOrder ==
    [][ /\ (lpc' = "backoff" /\ lpc # "backoff") => (lctx = "try" /\ lctx' = "reconnect")
        /\ (lpc = "backoff" /\ lpc' # "backoff") => lpc' = (IF hasRefresh THEN "renew" ELSE "token")
        /\ (lpc' = "renew" /\ lpc # "renew") => (lpc = "backoff" /\ hasRefresh)
        /\ (lpc = "renew" /\ lpc' # "renew") => lpc' = "token"
        /\ (lctx' = "reconnect" /\ lpc' = "token" /\ lpc # "token")
              => lpc \in {"backoff", "renew"}
        /\ (lctx' = "reconnect" /\ lpc' = "handshake" /\ lpc # "handshake")
              => lpc = "token"
        /\ (lctx' = "reconnect" /\ lpc' = "replay" /\ lpc # "replay")
              => (lpc = "handshake" /\ nConn' = nConn + 1 /\ li' = 1) ]_vars

\* A reconnect attempt with a refresh callback has gone through the wait, the
\* renewal and the handshake and is replaying the second subscription.
C30_Witness ==
    /\ lctx = "reconnect"
    /\ lpc = "replay"
    /\ hasRefresh
    /\ openedBy = "reconnect"
    /\ li = 2
    /\ Len(sent) = 1

\* A renewal by task t succeeds in this step.
RenewalSucceeds(t) ==
    /\ tpc[t] = "exchange"
    /\ tpc'[t] = "done"
    /\ tres'[t].err # "HTTPStatusError"

Skews == {0, SkewSeconds, 2 * SkewSeconds}

Min(a, b) == IF a <= b THEN a ELSE b

\* C26: for a cached set holding an access and an identity credential that
\* both have a decodable expiry, is_expired(skew) is true exactly when now has
\* reached the earlier of the two expiries minus skew.
C26_ExpiredWhenEitherExpired ==
    (tokens.some /\ tokens.access_token.exp # 0 /\ tokens.id_token.exp # 0) =>
        \A skew \in Skews :
            IsExpired(tokens, skew, now)
                <=> now >= Min(tokens.access_token.exp, tokens.id_token.exp) - skew

\* The credentials a set holds, and whether they agree on one expiry.
Held(ts) == {c \in {ts.access_token, ts.id_token} : c.n # 0}
OneExpiry(ts) == Held(ts) # {} /\ \A c, d \in Held(ts) : c.exp = d.exp
ExpiryOf(ts) == (CHOOSE c \in Held(ts) : TRUE).exp

\* C27: for a cached set whose credentials carry one decodable expiry,
\* is_expired(skew) is true exactly when now >= expiry - skew; for one whose
\* credentials carry no decodable expiry, exactly when
\* now >= obtained_at + expires_in - skew.
C27_ExpiryFormula ==
    (tokens.some /\ OneExpiry(tokens)) =>
        \A skew \in Skews :
            IsExpired(tokens, skew, now)
                <=> IF ExpiryOf(tokens) # 0
                    THEN now >= ExpiryOf(tokens) - skew
                    ELSE now >= tokens.obtained_at + tokens.expires_in - skew

\* A renewed set without decodable expiries has just reached its issue time
\* plus validity minus the manager's skew: expired with that skew, not yet
\* with none.
C27_Witness ==
    /\ tokens.some
    /\ OneExpiry(tokens)
    /\ ExpiryOf(tokens) = 0
    /\ tokens.obtained_at < now
    /\ now = tokens.obtained_at + tokens.expires_in - SkewSeconds
    /\ IsExpired(tokens, SkewSeconds, now)
    /\ ~IsExpired(tokens, 0, now)

\* The 401 responses the current request() call has received.
Count401 == Cardinality({i \in 1..Len(responses) : responses[i] = 401})

\* C29: a request() call invokes the refresh callback at most once, and only
\* for a 401; a 401 answering its first request (with retry_on_401 and a
\* callback) makes it invoke the callback and then send the request once more;
\* a second 401 ends the call with the error, with no further renewal and no
\* further request.
C29_RetryOnceOn401 ==
    /\ nRefresh <= 1
    /\ nRefresh = 1 => (responses # <<>> /\ responses[1] = 401)
    /\ (responses # <<>> /\ responses[1] = 401 /\ retry_on_401 /\ hasApiRefresh) =>
          /\ nRefresh = 1
          /\ apc \in {"refresh", "headers2"} => nRequests = 1
          /\ apc = "retry" => nRequests = 2
          /\ Len(responses) >= 2 => nRequests >= 2
    /\ (responses # <<>> /\ responses[1] = 401 /\ ~(retry_on_401 /\ hasApiRefresh)) =>
          (apc = "raised" /\ nRequests = 1)
    /\ Count401 >= 2 => (apc = "raised" /\ nRequests = Len(responses))
    /\ nRequests <= 3

\* The first request was answered 401, the callback ran once, the retry was
\* answered 401 again, and the call has raised.
C29_Witness ==
    /\ responses = <<401, 401>>
    /\ apc = "raised"
    /\ nRefresh = 1
    /\ nRequests = 2

-----------------------------------------------------------------------------
(* Further claims about the supervisor, checked under SpecWS *)

\* The _ping_loop tasks that have neither finished nor been cancelled.
AlivePings == {i \in 1..Len(pings) : pings[i] = "alive"}

\* listen() is inside a reconnect attempt, before its replay.
Reconnecting ==
    \/ lpc \in {"backoff", "renew"}
    \/ lctx = "reconnect" /\ lpc \in {"token", "handshake"}

\* C31: when the receive loop of a connection fails (the iteration raises),
\* every keepalive task is cancelled or finished in that same step, and none
\* is running during the reconnect attempt that follows.
C31_PingCancelledBeforeReconnect ==
    [][ /\ (/\ lpc = "recv"
            /\ ws # 0
            /\ tstate # "closed_ok"
            /\ lpc' \notin {"recv", "yielded"})
           => (AlivePings' = {} /\ ws' = 0)
        /\ Reconnecting => AlivePings = {} ]_vars

\* The receive loop of a connection on which a keepalive task was running
\* failed; the task has ended and the reconnect attempt is at its handshake.
C31_Witness ==
    /\ lctx = "reconnect"
    /\ lpc = "handshake"
    /\ nConn = 1
    /\ pings = <<"done">>
    /\ ping_task = 1

\* C32: at most one keepalive task is alive at any time.
C32_AtMostOnePingAlive == Cardinality(AlivePings) <= 1

\* C33: once disconnect() has returned, the next step listen() takes from
\* awaiting a message, the backoff delay or a handshake is its termination.
C33_ListenEndsAfterDisconnect ==
    [][ (dpc = "done" /\ lpc \in {"recv", "backoff", "handshake"} /\ lpc' # lpc)
            => lpc' \in {"ended", "raised"} ]_vars

\* C34: add_appliance() called while no handle is held records the
\* subscription and sends nothing; when a replay on a connection listen()
\* opened has run to its end with the connection still open and no
\* disconnect() requested, every registered subscription has been sent on it.
C34_DeferredSubscriptionSent ==
    [][ /\ (calls' = calls + 1 /\ ws = 0)
           => /\ sent' = sent
              /\ Len(appliances') >= 1
              /\ \E a \in Appliances :
                    Range(appliances') = Range(appliances) \cup {a}
        /\ (/\ lpc = "replay"
            /\ lpc' \in {"recv", "token", "ended"}
            /\ IsConnected'
            /\ dpc = "idle")
           => Range(appliances) \subseteq {sent'[i].a : i \in 1..Len(sent')} ]_vars

\* A subscription was registered before listen() was started; listen() has
\* opened the first connection, replayed it and is receiving.
C34_Witness ==
    /\ openedBy = "listen"
    /\ regAtOpen = 1
    /\ appliances = <<1>>
    /\ sent = <<[a |-> 1, by |-> "replay"]>>
    /\ lpc = "recv"
    /\ IsConnected

\* C35: with auto_reconnect off listen() never waits, renews or reconnects; a
\* failed connection (ConnectionClosed) ends the stream without error, any
\* other exception while receiving is raised to the consumer.
C35_NoReconnectWhenAutoOff ==
    [][ ~auto' =>
          /\ lpc' \notin {"backoff", "renew"}
          /\ lctx' = "try"
          /\ lastWait' = lastWait
          /\ (lpc = "recv" /\ lpc' \notin {"recv", "yielded"} /\ ws # 0 /\ tstate = "closed_err")
                => (lpc' = "ended" /\ lerr' = "none" /\ ws' = 0 /\ nConn' = nConn)
          /\ (lpc = "recv" /\ lpc' \notin {"recv", "yielded"} /\ IsConnected)
                => (lpc' = "raised" /\ lerr' = "other" /\ ws' = 0 /\ nConn' = nConn)
      ]_vars

\* listen(auto_reconnect=False) was ended by the failure of its connection,
\* with no disconnect() and no second connection.
C35_Witness ==
    /\ ~auto
    /\ running
    /\ dpc = "idle"
    /\ lpc = "ended"
    /\ lerr = "none"
    /\ nConn = 1
    /\ ws = 0

\* C36: the delay slept is the base delay plus a jitter of at most half of it;
\* the next base delay is min(2 * base, 30) whatever the jitter was; the base
\* delay is always one of 1, 2, 4, 8, 16, 30.
C36_JitterDoesNotCompound ==
    [][ /\ reconnect_delay \in {1, 2, 4, 8, 16, 30}
        /\ (lpc' = "backoff" /\ lpc # "backoff")
              => /\ lastWait' >= reconnect_delay'
                 /\ 2 * lastWait' <= 3 * reconnect_delay'
        /\ (lpc = "backoff" /\ lpc' # "backoff")
              => reconnect_delay' = (IF 2 * reconnect_delay < 30
                                     THEN 2 * reconnect_delay ELSE 30) ]_vars

\* The third wait in a row is being slept with the largest jitter: base 4,
\* wait 6.
C36_Witness ==
    /\ lpc = "backoff"
    /\ fails = 2
    /\ reconnect_delay = 4
    /\ lastWait = 6

-----------------------------------------------------------------------------
(* Further claims about the dispatcher, checked under SpecDisp *)

\* C37: the messages yielded, the raw observer's calls and the state
\* observer's calls are the frames received, in arrival order (those that
\* parse to an object, those that parse, and the well-formed reports); and
\* whenever listen() has just yielded a well-formed stateReport for X, the
\* cache entry of X is the state of that report and the state observer's last
\* call was made with it.
C37_DispatchedInOrderBeforeYield ==
    /\ emitted = SelectSeq(inbox, LAMBDA m : m.json = "object")
    /\ hasOnRaw => rawCalls = SelectSeq(inbox, LAMBDA m : m.json # "invalid")
    /\ hasOnState => stateCalls = ReportedStates
    /\ (lpc = "yielded" /\ WellFormedReport(emitted[Len(emitted)])) =>
          LET m == emitted[Len(emitted)]
              st == [serial_number |-> m.serial, raw_data |-> m.data,
                     version |-> m.version]
          IN  /\ m.serial \in DOMAIN state_cache
              /\ state_cache[m.serial] = st
              /\ hasOnState => stateCalls[Len(stateCalls)] = st

\* An unparsable frame and two reports for one device have arrived; the
\* second report has just been yielded and both observers have seen it.
C37_Witness ==
    /\ lpc = "yielded"
    /\ Len(inbox) = 3
    /\ inbox[1].json = "invalid"
    /\ WellFormedReport(inbox[2]) /\ WellFormedReport(inbox[3])
    /\ inbox[2].serial = inbox[3].serial
    /\ emitted = <<inbox[2], inbox[3]>>
    /\ hasOnRaw /\ hasOnState
    /\ Len(rawCalls) = 2
    /\ Len(stateCalls) = 2
    /\ state_cache[inbox[3].serial].raw_data = 3

-----------------------------------------------------------------------------
(* Further claims about the credential manager *)

\* C38: a set that holds neither credential is expired at any time and for any
\* skew; a get_id_token() / get_access_token() call that enters the critical
\* section on such a set carrying a renewal secret starts a renewal exchange
\* with that secret, and ends (returns or raises) when that one exchange comes
\* back, without a second.
C38_SeededSetRenewsFirst ==
    [][ /\ (tokens.some /\ Held(tokens) = {})
           => \A skew \in Skews : IsExpired(tokens, skew, now)
        /\ \A t \in Tasks :
              /\ (/\ EntersSection(t)
                  /\ top'[t] \in Gets
                  /\ tokens.some
                  /\ Held(tokens) = {}
                  /\ tokens.refresh_token # 0)
                 => /\ tpc'[t] = "exchange"
                    /\ nExch' = nExch + 1
                    /\ presented'[t] = tokens.refresh_token
              /\ (tpc[t] = "exchange" /\ tpc'[t] # "exchange")
                 => (tpc'[t] = "done" /\ nExch' = nExch) ]_vars

\* The first call on a manager seeded with a renewal secret only,
\* get_id_token(), has returned the identity credential its one exchange
\* brought, at the time it was called.
C38_Witness ==
    /\ nExch = 1
    /\ tpc[1] = "done"
    /\ top[1] = "get_id_token"
    /\ presented[1] = 1
    /\ tres[1].kind = "ret"
    /\ tres[1].cred = tokens.id_token
    /\ tres[1].at = 0
    /\ tres[1].cred.exp = LongLife
    /\ tpc[2] = "idle"

\* A set all of whose fields come from the exchange numbered serial that came
\* back at time t having presented the secret rt.
WholeResultOf(ts, serial, rt, t) ==
    /\ ts.some
    /\ Held(ts) # {}
    /\ \A c \in Held(ts) :
          c.n = serial /\ c.exp \in {0, t + ShortLife, t + LongLife}
    /\ ts.obtained_at = t
    /\ ts.expires_in \in {ShortLife, LongLife}
    /\ ts.refresh_token \in {rt, serial}

\* C39: the cached set changes only in the step in which a renewal succeeds,
\* and then all of its fields are those of that exchange's result (with the
\* secret presented when the response carried none); until the first success
\* it is the set the manager was constructed with.
C39_ReplacedWholesale ==
    [][ /\ ~firstSet.some => tokens \in InitTokenSets
        /\ tokens' # tokens =>
              \E t \in Tasks :
                 /\ RenewalSucceeds(t)
                 /\ WholeResultOf(tokens', nExch + 1, presented[t], now)
        /\ (\E t \in Tasks : tpc[t] = "exchange" /\ tpc'[t] = "exchange")
              => tokens' = tokens ]_vars

\* A set holding both credentials was replaced by the result of an exchange
\* that brought an identity credential only: the new set holds no access
\* credential.
C39_Witness ==
    /\ firstSet.some
    /\ nExch = 2
    /\ tokens.access_token.n = 0
    /\ tokens.id_token.n = 3
    /\ firstSet.access_token.n = 2
    /\ \A t \in Tasks : tpc[t] = "done"

\* C40: the lock is held only by a task whose exchange is in flight, so it is
\* free after every renewal, successful or not; and every task that waits for
\* the lock or for its exchange eventually returns or raises.
C40_LockAlwaysReleased ==
    /\ [](lock # 0 => tpc[lock] = "exchange")
    /\ \A t \in Tasks : (tpc[t] \in {"waiting", "exchange"}) ~> (tpc[t] = "done")

\* A renewal was rejected while another caller waited for the lock; the lock
\* is free again and the waiter has finished too.
C40_Witness ==
    /\ lock = 0
    /\ waiters = <<>>
    /\ tres[1].err = "HTTPStatusError"
    /\ tpc[2] = "done"
    /\ presented[2] # 0
    /\ nExch = 2

====
